---- MODULE Spec2Model ----
(***************************************************************************)
(* Model of Driver.py: a polled driver for a 74HC165 parallel-in /         *)
(* serial-out shift register chain (class ShiftReg) and the change         *)
(* detection loop built on it (class ReadHandler).                         *)
(*                                                                         *)
(* Every GPIO call of the driver is one step, so that the register chain   *)
(* and its parallel inputs (the environment) can move between two pin      *)
(* operations.  Python lists are sequences; the Python index x of a list   *)
(* is the index x + 1 of the sequence.  Pin levels are the integers 0, 1.  *)
(***************************************************************************)
EXTENDS Integers, Sequences, FiniteSets

\* Largest bitcount (length of the register chain) a driver is built with.
MaxBitCount == 3

\* Largest number of read_register() calls in one run (baseline included).
MaxReads == 3

\* Largest bitcount in the runs with fairness and in those with two threads.
MaxShortChain == 2

VARIABLES
    bitcount,           \* self.bitcount
    inputs,             \* the chain's parallel inputs, pin 0 .. bitcount-1
    shiftreg,           \* the chain's internal shift storage
    load_reg_pin,       \* level of the PL line
    clock_pin,          \* level of the CP line
    clock_enable,       \* level of the CE line
    pc,                 \* position of the driving thread
    caller,             \* who called read_register: "init" or "watch"
    register,           \* local list of read_register
    x,                  \* loop variable of read_register
    last_reading,       \* self.last_reading
    reading,            \* local of watch_inputs
    loop_breaker,       \* self.loop_breaker
    pins_changed_up,    \* arguments of _callback, empty while it is not
    pins_changed_down,  \*   running
    k,                  \* position in the list _callback is iterating
    \* history variables: they record what happened, no action reads them
    pinlog,             \* GPIO operations of the current read_register call
    events,             \* handler invocations of the current iteration
    latched,            \* the inputs as they were when PL last returned high
    iter_base,          \* last_reading at the start of the current iteration
    nreads,             \* read_register calls started so far
    stop_inflight,      \* loop_breaker was set while an iteration was running
    reads_after_stop,   \* read_register calls started with loop_breaker set
    ce_writes,          \* writes to the clock enable line so far
    cleanups,           \* calls of clean_gpio (io.cleanup) so far
    exit_way,           \* how the with block was left
    \* a second thread calling read_register on the same object
    pc2,                \* its position
    register2,          \* its local list
    x2,                 \* its loop variable
    overlap1,           \* the read of the first thread met another read
    overlap2,           \* the read of the second thread met another read
    \* the handler calls seen from the outside
    baseline,           \* last_reading as the constructor left it
    history             \* per pin, the handler calls made for it, in order

vars == <<bitcount, inputs, shiftreg, load_reg_pin, clock_pin, clock_enable,
          pc, caller, register, x, last_reading, reading, loop_breaker,
          pins_changed_up, pins_changed_down, k,
          pinlog, events, latched, iter_base, nreads, stop_inflight,
          reads_after_stop, ce_writes, cleanups, exit_way,
          pc2, register2, x2, overlap1, overlap2, baseline, history>>

chipvars == <<inputs, shiftreg>>
pinvars  == <<load_reg_pin, clock_pin, clock_enable>>
readvars == <<register, x, pinlog, latched>>
watchvars == <<last_reading, reading, pins_changed_up, pins_changed_down, k,
               events, iter_base>>
scopevars == <<cleanups, exit_way>>
othervars == <<pc2, register2, x2, overlap1, overlap2>>
eventvars == <<baseline, history>>
restvars == <<scopevars, othervars, eventvars>>

Bit == {0, 1}

\* All bit vectors over the pins 0 .. n-1.
BitVec(n) == [0 .. n - 1 -> Bit]

\* All Python lists of n bits.
BitSeq(n) == [1 .. n -> Bit]

-----------------------------------------------------------------------------
(* The register chain (74HC165).                                           *)

\* Level of the serial output Q7 of the chain: the highest-index stored bit.
SerialOut == shiftreg[bitcount - 1]

\* One shift: every stored bit moves one position up, the serial input DS
\* of the far end of the chain (tied low) enters at position 0.
Shifted(s) == [i \in 0 .. bitcount - 1 |-> IF i = 0 THEN 0 ELSE s[i - 1]]

\* Storage after the clock line is written: a rising edge shifts, provided
\* the chain is in shift mode (PL high) and the clock is enabled (CE low).
AfterClock(level) ==
    IF clock_pin = 0 /\ level = 1 /\ load_reg_pin = 1 /\ clock_enable = 0
    THEN Shifted(shiftreg)
    ELSE shiftreg

\* A parallel input changes level.  While PL is low the storage follows
\* the inputs (the load is level sensitive).
ChangeInput ==
    /\ pc # "new"
    /\ \E i \in 0 .. bitcount - 1 :
         /\ inputs' = [inputs EXCEPT ![i] = 1 - inputs[i]]
         /\ shiftreg' = IF load_reg_pin = 0 THEN inputs' ELSE shiftreg
    /\ UNCHANGED <<bitcount, restvars, ce_writes, reads_after_stop, pinvars, pc, caller, readvars, watchvars,
                   loop_breaker, nreads, stop_inflight>>

-----------------------------------------------------------------------------
(* class ShiftReg                                                          *)

\* Variant: the list is returned as it was gathered.
ReverseMissing(s) == s

\* list.reverse()
RECURSIVE Reverse(_)
Reverse(s) == IF s = <<>> THEN <<>> ELSE Append(Reverse(Tail(s)), Head(s))

\* Variant: the loop runs once more than bitcount times.
InRangeOneMore(n) == n <= bitcount

\* for x in range(self.bitcount) of read_register: the body runs again
InRange(n) == n < bitcount

\* Variant: _gpio_init does not drive the clock enable line.
ShiftRegInitNoEnable ==
    /\ pc = "new"
    /\ clock_pin' = 0
    /\ load_reg_pin' = 1
    /\ pc' = "ready"
    /\ UNCHANGED <<bitcount, restvars, ce_writes, reads_after_stop,
                   chipvars, clock_enable, caller, readvars, watchvars,
                   loop_breaker, nreads, stop_inflight>>

\* ShiftReg.__init__ with _gpio_init: the lines are configured and driven
\* to their defaults, clock low, clock enable low, load high.
ShiftRegInit ==
    /\ pc = "new"
    /\ clock_pin' = 0
    /\ clock_enable' = 0
    /\ ce_writes' = ce_writes + 1
    /\ load_reg_pin' = 1
    /\ pc' = "ready"
    /\ UNCHANGED <<bitcount, restvars, reads_after_stop, chipvars, caller, readvars, watchvars,
                   loop_breaker, nreads, stop_inflight>>

\* Variant: the list is not emptied at the entry.
ReadRegisterEnterKeepsList(who) ==
    /\ nreads < MaxReads
    /\ caller' = who
    /\ register' = register
    /\ x' = 0
    /\ pinlog' = <<>>
    /\ nreads' = nreads + 1
    /\ reads_after_stop' = reads_after_stop + (IF loop_breaker THEN 1 ELSE 0)
    /\ pc' = "load_lo"

\* Entry of read_register(): register = []
ReadRegisterEnter(who) ==
    /\ nreads < MaxReads
    /\ caller' = who
    /\ register' = <<>>
    /\ x' = 0
    /\ pinlog' = <<>>
    /\ nreads' = nreads + 1
    /\ reads_after_stop' = reads_after_stop + (IF loop_breaker THEN 1 ELSE 0)
    /\ pc' = "load_lo"

\* Variant: the first write of the pulse drives the line high.
LoadRegisterLowInverted ==
    /\ pc = "load_lo"
    /\ load_reg_pin' = 1
    /\ pinlog' = Append(pinlog, <<"out", "load", 1>>)
    /\ pc' = "load_hi"
    /\ UNCHANGED <<bitcount, restvars, ce_writes, reads_after_stop, chipvars, clock_pin, clock_enable, caller,
                   register, x, latched, watchvars, loop_breaker, nreads,
                   stop_inflight>>

\* _load_register, first write: io.output(self.load_reg_pin, 0)
LoadRegisterLow ==
    /\ pc = "load_lo"
    /\ load_reg_pin' = 0
    /\ shiftreg' = inputs
    /\ pinlog' = Append(pinlog, <<"out", "load", 0>>)
    /\ pc' = "load_hi"
    /\ UNCHANGED <<bitcount, restvars, ce_writes, reads_after_stop, inputs, clock_pin, clock_enable, caller,
                   register, x, latched, watchvars, loop_breaker, nreads, stop_inflight>>

\* Variant: the second write of the pulse leaves the line low.
LoadRegisterHighStaysLow ==
    /\ pc = "load_hi"
    /\ load_reg_pin' = 0
    /\ latched' = IF load_reg_pin = 0 THEN inputs ELSE latched
    /\ pinlog' = Append(pinlog, <<"out", "load", 0>>)
    /\ pc' = "sample"
    /\ UNCHANGED <<bitcount, restvars, ce_writes, reads_after_stop,
                   chipvars, clock_pin, clock_enable, caller, register, x,
                   watchvars, loop_breaker, nreads, stop_inflight>>

\* _load_register, second write: io.output(self.load_reg_pin, 1)
LoadRegisterHigh ==
    /\ pc = "load_hi"
    /\ load_reg_pin' = 1
    /\ latched' = IF load_reg_pin = 0 THEN inputs ELSE latched
    /\ pinlog' = Append(pinlog, <<"out", "load", 1>>)
    /\ pc' = "sample"
    /\ UNCHANGED <<bitcount, restvars, ce_writes, reads_after_stop, chipvars, clock_pin, clock_enable, caller,
                   register, x, watchvars, loop_breaker, nreads, stop_inflight>>

\* register.append(self._read_input())
ReadInput ==
    /\ pc = "sample"
    /\ InRange(x)
    /\ register' = Append(register, SerialOut)
    /\ pinlog' = Append(pinlog, <<"in", "data">>)
    /\ pc' = "clk_hi"
    /\ UNCHANGED <<bitcount, restvars, ce_writes, reads_after_stop, chipvars, pinvars, caller, x, latched,
                   watchvars, loop_breaker, nreads, stop_inflight>>

\* _shift_register, first write: io.output(self.clock_pin, 1)
ClockHigh ==
    /\ pc = "clk_hi"
    /\ clock_pin' = 1
    /\ shiftreg' = AfterClock(1)
    /\ pinlog' = Append(pinlog, <<"out", "clock", 1>>)
    /\ pc' = "clk_lo"
    /\ UNCHANGED <<bitcount, restvars, ce_writes, reads_after_stop, inputs, load_reg_pin, clock_enable, caller,
                   register, x, latched, watchvars, loop_breaker, nreads, stop_inflight>>

\* Variant: the second write of the clock pulse leaves the line high.
ClockLowStaysHigh ==
    /\ pc = "clk_lo"
    /\ clock_pin' = 1
    /\ shiftreg' = AfterClock(1)
    /\ pinlog' = Append(pinlog, <<"out", "clock", 1>>)
    /\ x' = x + 1
    /\ pc' = "sample"
    /\ UNCHANGED <<bitcount, restvars, ce_writes, reads_after_stop, inputs,
                   load_reg_pin, clock_enable, caller, register, latched,
                   watchvars, loop_breaker, nreads, stop_inflight>>

\* _shift_register, second write: io.output(self.clock_pin, 0)
ClockLow ==
    /\ pc = "clk_lo"
    /\ clock_pin' = 0
    /\ shiftreg' = AfterClock(0)
    /\ pinlog' = Append(pinlog, <<"out", "clock", 0>>)
    /\ x' = x + 1
    /\ pc' = "sample"
    /\ UNCHANGED <<bitcount, restvars, ce_writes, reads_after_stop, inputs, load_reg_pin, clock_enable, caller,
                   register, latched, watchvars, loop_breaker, nreads, stop_inflight>>

\* End of the loop of read_register: register.reverse(); return register
ReadRegisterReturn ==
    /\ pc = "sample"
    /\ ~InRange(x)
    /\ register' = Reverse(register)
    /\ pc' = "ret"
    /\ UNCHANGED <<bitcount, restvars, ce_writes, reads_after_stop, chipvars, pinvars, caller, x, pinlog, latched,
                   watchvars, loop_breaker, nreads, stop_inflight>>

-----------------------------------------------------------------------------
(* class ReadHandler                                                       *)

\* ReadHandler.__init__ after ShiftReg.__init__: the baseline read starts.
BaselineRead ==
    /\ pc = "ready"
    /\ ReadRegisterEnter("init")
    /\ UNCHANGED <<bitcount, restvars, ce_writes, chipvars, pinvars, latched, watchvars,
                   loop_breaker, stop_inflight>>

\* Variant: no baseline is kept, last_reading starts all low.
ReadHandlerInitNoBaseline ==
    /\ pc = "ret"
    /\ caller = "init"
    /\ last_reading' = [i \in 1 .. bitcount |-> 0]
    /\ loop_breaker' = FALSE
    /\ pc' = "constructed"
    /\ UNCHANGED <<bitcount, restvars, ce_writes, reads_after_stop, chipvars, pinvars, caller, readvars, reading,
                   pins_changed_up, pins_changed_down, k, events, iter_base,
                   nreads, stop_inflight>>

\* self.last_reading = self.read_register(); self.loop_breaker = False
ReadHandlerInit ==
    /\ pc = "ret"
    /\ caller = "init"
    /\ last_reading' = register
    /\ loop_breaker' = FALSE
    /\ pc' = "constructed"
    /\ UNCHANGED <<bitcount, restvars, ce_writes, reads_after_stop, chipvars, pinvars, caller, readvars, reading,
                   pins_changed_up, pins_changed_down, k, events, iter_base,
                   nreads, stop_inflight>>

\* The loop of _detect_changed_pins from index n on; up and down are the
\* lists built so far.
RECURSIVE DetectFrom(_, _, _, _, _)
DetectFrom(n, cur, last, up, down) ==
    IF ~(n < bitcount) THEN <<up, down>>
    ELSE IF cur[n + 1] # last[n + 1]
         THEN IF cur[n + 1] = 1
              THEN DetectFrom(n + 1, cur, last, Append(up, n), down)
              ELSE DetectFrom(n + 1, cur, last, up, Append(down, n))
         ELSE DetectFrom(n + 1, cur, last, up, down)

\* Variant: every pin is reported, whether it differs or not.
RECURSIVE DetectAllFrom(_, _, _, _, _)
DetectAllFrom(n, cur, last, up, down) ==
    IF ~(n < bitcount) THEN <<up, down>>
    ELSE IF cur[n + 1] = 1
         THEN DetectAllFrom(n + 1, cur, last, Append(up, n), down)
         ELSE DetectAllFrom(n + 1, cur, last, up, Append(down, n))

DetectChangedPinsNoCompare(cur, last) == DetectAllFrom(0, cur, last, <<>>, <<>>)

\* Variant: a differing pin is sorted by its previous level.
RECURSIVE DetectByLastFrom(_, _, _, _, _)
DetectByLastFrom(n, cur, last, up, down) ==
    IF ~(n < bitcount) THEN <<up, down>>
    ELSE IF cur[n + 1] # last[n + 1]
         THEN IF last[n + 1] = 1
              THEN DetectByLastFrom(n + 1, cur, last, Append(up, n), down)
              ELSE DetectByLastFrom(n + 1, cur, last, up, Append(down, n))
         ELSE DetectByLastFrom(n + 1, cur, last, up, down)

DetectChangedPinsByLast(cur, last) == DetectByLastFrom(0, cur, last, <<>>, <<>>)

\* _detect_changed_pins(reading, last_reading)
DetectChangedPins(cur, last) == DetectFrom(0, cur, last, <<>>, <<>>)

\* One iteration of the loop of watch_inputs starts: read_register is called.
BeginIteration ==
    /\ ReadRegisterEnter("watch")
    /\ events' = <<>>
    /\ iter_base' = last_reading
    /\ UNCHANGED <<bitcount, restvars, ce_writes, chipvars, pinvars, latched, last_reading,
                   reading, pins_changed_up, pins_changed_down, k,
                   loop_breaker, stop_inflight>>

\* watch_inputs() is called on the constructed object.
WatchInputs ==
    /\ pc = "constructed"
    /\ BeginIteration

\* Variant: every reading is dispatched; an unchanged one by the levels
\* of its pins.
WatchCompareByLevel ==
    /\ pc = "ret"
    /\ caller = "watch"
    /\ reading' = register
    /\ IF register # last_reading
       THEN /\ pins_changed_up' = DetectChangedPins(register, last_reading)[1]
            /\ pins_changed_down' = DetectChangedPins(register, last_reading)[2]
       ELSE /\ pins_changed_up'
                  = DetectChangedPinsNoCompare(register, last_reading)[1]
            /\ pins_changed_down'
                  = DetectChangedPinsNoCompare(register, last_reading)[2]
    /\ k' = 1
    /\ pc' = "cb_up"
    /\ UNCHANGED <<bitcount, restvars, ce_writes, reads_after_stop, chipvars, pinvars, caller, readvars,
                   last_reading, events, iter_base, loop_breaker, nreads,
                   stop_inflight>>

\* Variant: last_reading is updated before _callback is entered.
WatchCompareUpdatesFirst ==
    /\ pc = "ret"
    /\ caller = "watch"
    /\ reading' = register
    /\ last_reading' = register
    /\ IF register # last_reading
       THEN /\ pins_changed_up' = DetectChangedPins(register, last_reading)[1]
            /\ pins_changed_down' = DetectChangedPins(register, last_reading)[2]
            /\ k' = 1
            /\ pc' = "cb_up"
       ELSE /\ UNCHANGED <<pins_changed_up, pins_changed_down, k>>
            /\ pc' = "check"
    /\ UNCHANGED <<bitcount, restvars, ce_writes, reads_after_stop, chipvars, pinvars, caller, readvars,
                   events, iter_base, loop_breaker, nreads, stop_inflight>>

\* reading = self.read_register(); if reading != self.last_reading: the
\* changed pins are detected and _callback is entered.
WatchCompare ==
    /\ pc = "ret"
    /\ caller = "watch"
    /\ reading' = register
    /\ IF register # last_reading
       THEN /\ pins_changed_up' = DetectChangedPins(register, last_reading)[1]
            /\ pins_changed_down' = DetectChangedPins(register, last_reading)[2]
            /\ k' = 1
            /\ pc' = "cb_up"
       ELSE /\ UNCHANGED <<pins_changed_up, pins_changed_down, k>>
            /\ pc' = "check"
    /\ UNCHANGED <<bitcount, restvars, ce_writes, reads_after_stop, chipvars, pinvars, caller, readvars,
                   last_reading, events, iter_base, loop_breaker, nreads, stop_inflight>>

\* Variant: the first loop calls handle_on_down.
HandleOnUpCallsDown ==
    /\ pc = "cb_up"
    /\ k <= Len(pins_changed_up)
    /\ events' = Append(events, <<"down", pins_changed_up[k]>>)
    /\ k' = k + 1
    /\ UNCHANGED <<bitcount, restvars, ce_writes, reads_after_stop, chipvars, pinvars, pc, caller, readvars,
                   last_reading, reading, pins_changed_up, pins_changed_down,
                   iter_base, loop_breaker, nreads, stop_inflight>>

\* Variant: the flag is also tested between two handler calls.
HandleOnUpBreaks ==
    /\ pc = "cb_up"
    /\ k <= Len(pins_changed_up)
    /\ IF loop_breaker
       THEN /\ pc' = "done"
            /\ UNCHANGED <<events, k>>
       ELSE /\ events' = Append(events, <<"up", pins_changed_up[k]>>)
            /\ k' = k + 1
            /\ pc' = pc
    /\ UNCHANGED <<bitcount, restvars, ce_writes, reads_after_stop, chipvars, pinvars, caller, readvars,
                   last_reading, reading, pins_changed_up, pins_changed_down,
                   iter_base, loop_breaker, nreads, stop_inflight>>

\* for pin in pins_changed_up: self.handle_on_up(pin)
HandleOnUp ==
    /\ pc = "cb_up"
    /\ k <= Len(pins_changed_up)
    /\ events' = Append(events, <<"up", pins_changed_up[k]>>)
    /\ k' = k + 1
    /\ UNCHANGED <<bitcount, restvars, ce_writes, reads_after_stop, chipvars, pinvars, pc, caller, readvars,
                   last_reading, reading, pins_changed_up, pins_changed_down,
                   iter_base, loop_breaker, nreads, stop_inflight>>

\* The first loop of _callback is exhausted, the second one starts.
CallbackNextLoop ==
    /\ pc = "cb_up"
    /\ k > Len(pins_changed_up)
    /\ k' = 1
    /\ pc' = "cb_down"
    /\ UNCHANGED <<bitcount, restvars, ce_writes, reads_after_stop, chipvars, pinvars, caller, readvars,
                   last_reading, reading, pins_changed_up, pins_changed_down,
                   events, iter_base, loop_breaker, nreads, stop_inflight>>

\* for pin in pins_changed_down: self.handle_on_down(pin)
HandleOnDown ==
    /\ pc = "cb_down"
    /\ k <= Len(pins_changed_down)
    /\ events' = Append(events, <<"down", pins_changed_down[k]>>)
    /\ k' = k + 1
    /\ UNCHANGED <<bitcount, restvars, ce_writes, reads_after_stop, chipvars, pinvars, pc, caller, readvars,
                   last_reading, reading, pins_changed_up, pins_changed_down,
                   iter_base, loop_breaker, nreads, stop_inflight>>

\* A handler supplied by a subclass raises: nothing in _callback or
\* watch_inputs catches it, the exception leaves watch_inputs.
HandlerRaises ==
    /\ \/ pc = "cb_up" /\ k <= Len(pins_changed_up)
       \/ pc = "cb_down" /\ k <= Len(pins_changed_down)
    /\ pc' = "raised"
    /\ UNCHANGED <<bitcount, restvars, ce_writes, reads_after_stop, chipvars, pinvars, caller, readvars, watchvars,
                   loop_breaker, nreads, stop_inflight>>

\* Variant: last_reading is not updated.
UpdateLastReadingMissing ==
    /\ pc = "cb_down"
    /\ k > Len(pins_changed_down)
    /\ pins_changed_up' = <<>>
    /\ pins_changed_down' = <<>>
    /\ k' = 1
    /\ pc' = "check"
    /\ UNCHANGED <<bitcount, restvars, ce_writes, reads_after_stop, chipvars, pinvars, caller, readvars,
                   last_reading, reading, events, iter_base, loop_breaker,
                   nreads, stop_inflight>>

\* _callback returns (its arguments go with its frame);
\* self.last_reading = reading
UpdateLastReading ==
    /\ pc = "cb_down"
    /\ k > Len(pins_changed_down)
    /\ last_reading' = reading
    /\ pins_changed_up' = <<>>
    /\ pins_changed_down' = <<>>
    /\ k' = 1
    /\ pc' = "check"
    /\ UNCHANGED <<bitcount, restvars, ce_writes, reads_after_stop, chipvars, pinvars, caller, readvars, reading,
                   events, iter_base, loop_breaker, nreads, stop_inflight>>

\* if self.loop_breaker == True: break
WatchBreak ==
    /\ pc = "check"
    /\ loop_breaker
    /\ pc' = "done"
    /\ UNCHANGED <<bitcount, restvars, ce_writes, reads_after_stop, chipvars, pinvars, caller, readvars, watchvars,
                   loop_breaker, nreads, stop_inflight>>

\* Variant: the loop goes round again whatever the flag.
WatchLoopIgnoresFlag ==
    /\ pc = "check"
    /\ BeginIteration

\* The flag is not set: while True goes round again.
WatchLoop ==
    /\ pc = "check"
    /\ ~loop_breaker
    /\ BeginIteration

\* A handler or another thread sets self.loop_breaker = True.
SetLoopBreaker ==
    /\ pc \notin {"new", "ready", "load_lo", "load_hi", "sample", "clk_hi",
                  "clk_lo", "ret"} \/ caller = "watch"
    /\ pc \notin {"done", "raised", "exited"}
    /\ ~loop_breaker
    /\ loop_breaker' = TRUE
    /\ stop_inflight' = (pc \notin {"constructed", "check"})
    /\ UNCHANGED <<bitcount, restvars, ce_writes, reads_after_stop, chipvars, pinvars, pc, caller, readvars,
                   watchvars, nreads>>

\* Variant: __exit__ cleans up only when the block ended without exception.
WithExitSkipsOnError ==
    /\ pc \in {"constructed", "done", "raised"}
    /\ cleanups' = cleanups + (IF pc = "raised" THEN 0 ELSE 1)
    /\ exit_way' = CASE pc = "constructed" -> "early"
                     [] pc = "done" -> "normal"
                     [] pc = "raised" -> "exception"
    /\ pc' = "exited"
    /\ UNCHANGED <<bitcount, othervars, eventvars, ce_writes,
                   reads_after_stop, chipvars, pinvars, caller, readvars,
                   watchvars, loop_breaker, nreads, stop_inflight>>

\* The with block around the object is left, __exit__ calls clean_gpio():
\* before watch_inputs() is called, after it returned, or by the exception
\* of a handler.  The lines are released; their last levels stay recorded.
WithExit ==
    /\ pc \in {"constructed", "done", "raised"}
    /\ cleanups' = cleanups + 1
    /\ exit_way' = CASE pc = "constructed" -> "early"
                     [] pc = "done" -> "normal"
                     [] pc = "raised" -> "exception"
    /\ pc' = "exited"
    /\ UNCHANGED <<bitcount, othervars, eventvars, ce_writes,
                   reads_after_stop, chipvars, pinvars, caller, readvars,
                   watchvars, loop_breaker, nreads, stop_inflight>>

\* The variables only the other specifications move, and the counters.
RestInit ==
    /\ reads_after_stop = 0
    /\ ce_writes = 0
    /\ cleanups = 0
    /\ exit_way = "none"
    /\ pc2 = "idle"
    /\ register2 = <<>>
    /\ x2 = 0
    /\ overlap1 = FALSE
    /\ overlap2 = FALSE
    /\ baseline = <<>>
    /\ history = <<>>

-----------------------------------------------------------------------------
Init ==
    /\ bitcount \in 1 .. MaxBitCount
    /\ inputs \in BitVec(bitcount)
    /\ shiftreg \in BitVec(bitcount)
    /\ load_reg_pin \in Bit
    /\ load_reg_pin = 0 => shiftreg = inputs
    /\ clock_pin \in Bit
    /\ clock_enable \in Bit
    /\ pc = "new"
    /\ caller = "init"
    /\ register = <<>>
    /\ x = 0
    /\ last_reading = <<>>
    /\ reading = <<>>
    /\ loop_breaker = FALSE
    /\ pins_changed_up = <<>>
    /\ pins_changed_down = <<>>
    /\ k = 1
    /\ pinlog = <<>>
    /\ events = <<>>
    /\ latched = shiftreg
    /\ iter_base = <<>>
    /\ nreads = 0
    /\ stop_inflight = FALSE
    /\ RestInit

Next ==
    \/ ChangeInput
    \/ ShiftRegInit
    \/ BaselineRead
    \/ LoadRegisterLow
    \/ LoadRegisterHigh
    \/ ReadInput
    \/ ClockHigh
    \/ ClockLow
    \/ ReadRegisterReturn
    \/ ReadHandlerInit
    \/ WatchInputs
    \/ WatchCompare
    \/ HandleOnUp
    \/ CallbackNextLoop
    \/ HandleOnDown
    \/ HandlerRaises
    \/ UpdateLastReading
    \/ WatchBreak
    \/ WatchLoop
    \/ SetLoopBreaker
    \/ WithExit

Spec == Init /\ [][Next]_vars

\* The steps the driving thread takes by itself once it is inside
\* read_register or watch_inputs: GPIO calls and handlers return.
DriverStep ==
    \/ LoadRegisterLow
    \/ LoadRegisterHigh
    \/ ReadInput
    \/ ClockHigh
    \/ ClockLow
    \/ ReadRegisterReturn
    \/ WatchCompare
    \/ HandleOnUp
    \/ CallbackNextLoop
    \/ HandleOnDown
    \/ UpdateLastReading
    \/ WatchBreak
    \/ WatchLoop

\* The runs checked for termination start with a short chain.
InitFair == Init /\ bitcount <= MaxShortChain

\* The thread is not stopped for ever in the middle of a call.
SpecFair == InitFair /\ [][Next]_vars /\ WF_vars(DriverStep)

-----------------------------------------------------------------------------
(* _detect_changed_pins on its own: every pair of lists of bitcount bits.  *)

\* self._detect_changed_pins(reading, last_reading) is called and returns.
DetectCall ==
    /\ pc = "diff_call"
    /\ pins_changed_up' = DetectChangedPins(reading, last_reading)[1]
    /\ pins_changed_down' = DetectChangedPins(reading, last_reading)[2]
    /\ pc' = "diff_ret"
    /\ UNCHANGED <<bitcount, restvars, ce_writes, reads_after_stop, chipvars, pinvars, caller, readvars,
                   last_reading, reading, k, events, iter_base,
                   loop_breaker, nreads, stop_inflight>>

InitDiff ==
    /\ bitcount \in 1 .. MaxBitCount
    /\ reading \in BitSeq(bitcount)
    /\ last_reading \in BitSeq(bitcount)
    /\ inputs = [i \in 0 .. bitcount - 1 |-> 0]
    /\ shiftreg = inputs
    /\ latched = inputs
    /\ load_reg_pin = 1
    /\ clock_pin = 0
    /\ clock_enable = 0
    /\ pc = "diff_call"
    /\ caller = "watch"
    /\ register = <<>>
    /\ x = 0
    /\ loop_breaker = FALSE
    /\ pins_changed_up = <<>>
    /\ pins_changed_down = <<>>
    /\ k = 1
    /\ pinlog = <<>>
    /\ events = <<>>
    /\ iter_base = last_reading
    /\ nreads = 0
    /\ stop_inflight = FALSE
    /\ RestInit

NextDiff == DetectCall

SpecDiff == InitDiff /\ [][NextDiff]_vars

-----------------------------------------------------------------------------
(* A plain ShiftReg object whose read_register() is called by two threads. *)
(* The first thread runs the steps of read_register above; the second one  *)
(* runs the same code with its own locals register2 and x2.  Both drive    *)
(* the same lines.  pinlog restarts at every entry of a read that starts   *)
(* alone; the operations of the second thread are logged while its read    *)
(* has met no other read.                                                  *)

\* The thread at position p is inside read_register.
InFlight(p) == p \in {"load_lo", "load_hi", "sample", "clk_hi", "clk_lo", "ret"}

\* The first thread calls t.read_register().
DirectRead ==
    /\ pc = "idle"
    /\ ReadRegisterEnter("direct")
    /\ overlap1' = InFlight(pc2)
    /\ overlap2' = (overlap2 \/ InFlight(pc2))
    /\ UNCHANGED <<bitcount, scopevars, eventvars, ce_writes, chipvars,
                   pinvars, latched, watchvars, loop_breaker, stop_inflight,
                   pc2, register2, x2>>

\* read_register() has returned to the first thread.
DirectReturn ==
    /\ pc = "ret"
    /\ caller = "direct"
    /\ pc' = "idle"
    /\ UNCHANGED <<bitcount, restvars, ce_writes, reads_after_stop, chipvars,
                   pinvars, caller, readvars, watchvars, loop_breaker,
                   nreads, stop_inflight>>

\* pinlog after an operation of the second thread.
OtherLogged(op) == IF overlap2 THEN pinlog ELSE Append(pinlog, op)

\* What no step of the second thread changes.
OtherFrame ==
    UNCHANGED <<bitcount, scopevars, eventvars, ce_writes, reads_after_stop,
                inputs, clock_enable, pc, caller, register, x, watchvars,
                loop_breaker, stop_inflight>>

\* The second thread calls t.read_register(): register = []
OtherRead ==
    /\ pc2 = "idle"
    /\ nreads < MaxReads
    /\ nreads' = nreads + 1
    /\ register2' = <<>>
    /\ x2' = 0
    /\ pinlog' = IF InFlight(pc) THEN pinlog ELSE <<>>
    /\ pc2' = "load_lo"
    /\ overlap2' = InFlight(pc)
    /\ overlap1' = (overlap1 \/ InFlight(pc))
    /\ UNCHANGED <<shiftreg, load_reg_pin, clock_pin, latched>>
    /\ OtherFrame

\* Second thread, _load_register: io.output(self.load_reg_pin, 0)
OtherLoadRegisterLow ==
    /\ pc2 = "load_lo"
    /\ load_reg_pin' = 0
    /\ shiftreg' = inputs
    /\ pinlog' = OtherLogged(<<"out", "load", 0>>)
    /\ pc2' = "load_hi"
    /\ UNCHANGED <<clock_pin, latched, register2, x2, overlap1, overlap2,
                   nreads>>
    /\ OtherFrame

\* Second thread, _load_register: io.output(self.load_reg_pin, 1)
OtherLoadRegisterHigh ==
    /\ pc2 = "load_hi"
    /\ load_reg_pin' = 1
    /\ latched' = IF load_reg_pin = 0 THEN inputs ELSE latched
    /\ pinlog' = OtherLogged(<<"out", "load", 1>>)
    /\ pc2' = "sample"
    /\ UNCHANGED <<shiftreg, clock_pin, register2, x2, overlap1, overlap2,
                   nreads>>
    /\ OtherFrame

\* Second thread: register.append(self._read_input())
OtherReadInput ==
    /\ pc2 = "sample"
    /\ InRange(x2)
    /\ register2' = Append(register2, SerialOut)
    /\ pinlog' = OtherLogged(<<"in", "data">>)
    /\ pc2' = "clk_hi"
    /\ UNCHANGED <<shiftreg, load_reg_pin, clock_pin, latched, x2, overlap1,
                   overlap2, nreads>>
    /\ OtherFrame

\* Second thread, _shift_register: io.output(self.clock_pin, 1)
OtherClockHigh ==
    /\ pc2 = "clk_hi"
    /\ clock_pin' = 1
    /\ shiftreg' = AfterClock(1)
    /\ pinlog' = OtherLogged(<<"out", "clock", 1>>)
    /\ pc2' = "clk_lo"
    /\ UNCHANGED <<load_reg_pin, latched, register2, x2, overlap1, overlap2,
                   nreads>>
    /\ OtherFrame

\* Second thread, _shift_register: io.output(self.clock_pin, 0)
OtherClockLow ==
    /\ pc2 = "clk_lo"
    /\ clock_pin' = 0
    /\ shiftreg' = AfterClock(0)
    /\ pinlog' = OtherLogged(<<"out", "clock", 0>>)
    /\ x2' = x2 + 1
    /\ pc2' = "sample"
    /\ UNCHANGED <<load_reg_pin, latched, register2, overlap1, overlap2,
                   nreads>>
    /\ OtherFrame

\* Second thread: register.reverse(); return register
OtherReadRegisterReturn ==
    /\ pc2 = "sample"
    /\ ~InRange(x2)
    /\ register2' = Reverse(register2)
    /\ pc2' = "ret"
    /\ UNCHANGED <<shiftreg, load_reg_pin, clock_pin, latched, pinlog, x2,
                   overlap1, overlap2, nreads>>
    /\ OtherFrame

\* read_register() has returned to the second thread.
OtherReturn ==
    /\ pc2 = "ret"
    /\ pc2' = "idle"
    /\ UNCHANGED <<shiftreg, load_reg_pin, clock_pin, latched, pinlog,
                   register2, x2, overlap1, overlap2, nreads>>
    /\ OtherFrame

\* The object as ShiftReg.__init__ leaves it, no read under way.
InitConc ==
    /\ bitcount \in 1 .. MaxShortChain
    /\ inputs \in BitVec(bitcount)
    /\ shiftreg \in BitVec(bitcount)
    /\ latched = shiftreg
    /\ load_reg_pin = 1
    /\ clock_pin = 0
    /\ clock_enable = 0
    /\ pc = "idle"
    /\ caller = "direct"
    /\ register = <<>>
    /\ x = 0
    /\ last_reading = <<>>
    /\ reading = <<>>
    /\ loop_breaker = FALSE
    /\ pins_changed_up = <<>>
    /\ pins_changed_down = <<>>
    /\ k = 1
    /\ pinlog = <<>>
    /\ events = <<>>
    /\ iter_base = <<>>
    /\ nreads = 0
    /\ stop_inflight = FALSE
    /\ reads_after_stop = 0
    /\ ce_writes = 1
    /\ cleanups = 0
    /\ exit_way = "none"
    /\ pc2 = "idle"
    /\ register2 = <<>>
    /\ x2 = 0
    /\ overlap1 = FALSE
    /\ overlap2 = FALSE
    /\ baseline = <<>>
    /\ history = <<>>

NextConc ==
    \/ DirectRead
    \/ LoadRegisterLow
    \/ LoadRegisterHigh
    \/ ReadInput
    \/ ClockHigh
    \/ ClockLow
    \/ ReadRegisterReturn
    \/ DirectReturn
    \/ OtherRead
    \/ OtherLoadRegisterLow
    \/ OtherLoadRegisterHigh
    \/ OtherReadInput
    \/ OtherClockHigh
    \/ OtherClockLow
    \/ OtherReadRegisterReturn
    \/ OtherReturn

SpecConc == InitConc /\ [][NextConc]_vars

-----------------------------------------------------------------------------
(* The handler calls of a whole run of watch_inputs, no handler failing.   *)
(* One step is one iteration of the loop; the reading is whatever list of  *)
(* bitcount bits read_register returns.                                    *)

\* _callback(pins_changed_up, pins_changed_down): the handler calls it
\* makes, in order.
Callback(up, down) ==
    [i \in 1 .. Len(up) |-> <<"up", up[i]>>]
    \o [i \in 1 .. Len(down) |-> <<"down", down[i]>>]

\* The handlers note each call under its pin.
RECURSIVE Recorded(_, _)
Recorded(h, calls) ==
    IF calls = <<>> THEN h
    ELSE Recorded([h EXCEPT ![Head(calls)[2]] = Append(@, Head(calls)[1])],
                  Tail(calls))

\* Variant: last_reading is left as it was after the dispatch.
PollOnceKeepsBaseline ==
    /\ pc = "polling"
    /\ nreads < MaxReads
    /\ nreads' = nreads + 1
    /\ \E r \in BitSeq(bitcount) :
         /\ reading' = r
         /\ iter_base' = last_reading
         /\ IF r # last_reading
            THEN LET d == DetectChangedPins(r, last_reading)
                 IN  /\ events' = Callback(d[1], d[2])
                     /\ history' = Recorded(history, Callback(d[1], d[2]))
            ELSE /\ events' = <<>>
                 /\ history' = history
    /\ UNCHANGED <<bitcount, scopevars, othervars, baseline, ce_writes,
                   reads_after_stop, chipvars, pinvars, pc, caller, readvars,
                   last_reading, pins_changed_up, pins_changed_down, k,
                   loop_breaker, stop_inflight>>

\* One iteration of watch_inputs: reading = self.read_register(); if it
\* differs from last_reading, the changed pins are detected, _callback
\* calls the handlers and last_reading becomes the reading.
PollOnce ==
    /\ pc = "polling"
    /\ nreads < MaxReads
    /\ nreads' = nreads + 1
    /\ \E r \in BitSeq(bitcount) :
         /\ reading' = r
         /\ iter_base' = last_reading
         /\ IF r # last_reading
            THEN LET d == DetectChangedPins(r, last_reading)
                 IN  /\ events' = Callback(d[1], d[2])
                     /\ history' = Recorded(history, Callback(d[1], d[2]))
                     /\ last_reading' = r
            ELSE /\ events' = <<>>
                 /\ history' = history
                 /\ last_reading' = last_reading
    /\ UNCHANGED <<bitcount, scopevars, othervars, baseline, ce_writes,
                   reads_after_stop, chipvars, pinvars, pc, caller, readvars,
                   pins_changed_up, pins_changed_down, k, loop_breaker,
                   stop_inflight>>

\* The ReadHandler as its constructor leaves it: any baseline reading.
InitEvents ==
    /\ bitcount \in 1 .. MaxBitCount
    /\ last_reading \in BitSeq(bitcount)
    /\ baseline = last_reading
    /\ history = [i \in 0 .. bitcount - 1 |-> <<>>]
    /\ inputs = [i \in 0 .. bitcount - 1 |-> 0]
    /\ shiftreg = inputs
    /\ latched = inputs
    /\ load_reg_pin = 1
    /\ clock_pin = 0
    /\ clock_enable = 0
    /\ pc = "polling"
    /\ caller = "watch"
    /\ register = <<>>
    /\ x = 0
    /\ reading = last_reading
    /\ loop_breaker = FALSE
    /\ pins_changed_up = <<>>
    /\ pins_changed_down = <<>>
    /\ k = 1
    /\ pinlog = <<>>
    /\ events = <<>>
    /\ iter_base = last_reading
    /\ nreads = 1
    /\ stop_inflight = FALSE
    /\ reads_after_stop = 0
    /\ ce_writes = 1
    /\ cleanups = 0
    /\ exit_way = "none"
    /\ pc2 = "idle"
    /\ register2 = <<>>
    /\ x2 = 0
    /\ overlap1 = FALSE
    /\ overlap2 = FALSE

NextEvents == PollOnce

SpecEvents == InitEvents /\ [][NextEvents]_vars

-----------------------------------------------------------------------------
(* Properties.                                                             *)

\* The pins 0 .. bitcount-1.
Pins == 0 .. bitcount - 1

\* The elements of a list.
Range(s) == {s[i] : i \in 1 .. Len(s)}

\* The list is strictly ascending.
Ascending(s) == \A i, j \in 1 .. Len(s) : i < j => s[i] < s[j]

\* The ascending list of a set of pins.
RECURSIVE AscendingList(_)
AscendingList(S) ==
    IF S = {} THEN <<>>
    ELSE LET m == CHOOSE a \in S : \A b \in S : a <= b
         IN  <<m>> \o AscendingList(S \ {m})

\* The pins at which two lists differ, and those whose level in list a is v.
Differing(a, b) == {i \in Pins : a[i + 1] # b[i + 1]}
DifferingAt(a, b, v) == {i \in Differing(a, b) : a[i + 1] = v}

\* The handler calls a change from list b to list a asks for.
Transitions(a, b) ==
    LET ups   == AscendingList(DifferingAt(a, b, 1))
        downs == AscendingList(DifferingAt(a, b, 0))
    IN  [i \in 1 .. Len(ups) |-> <<"up", ups[i]>>]
        \o [i \in 1 .. Len(downs) |-> <<"down", downs[i]>>]

\* The GPIO operations of one read of n bits.
RECURSIVE ShiftOps(_)
ShiftOps(n) ==
    IF n = 0 THEN <<>>
    ELSE <<<<"in", "data">>, <<"out", "clock", 1>>, <<"out", "clock", 0>>>>
         \o ShiftOps(n - 1)

ReadOps(n) == <<<<"out", "load", 0>>, <<"out", "load", 1>>>> \o ShiftOps(n)

\* C1: read_register() returns a list r with r[i] equal to the level of
\* input pin i at latch time, for every i in [0, bitcount): index 0 is
\* the first input pin, index bitcount-1 the last.
C1_ReadReturnsLatchedInputs ==
    pc = "ret" =>
        /\ Len(register) = bitcount
        /\ \A i \in Pins : register[i + 1] = latched[i]

C1_Witness ==
    /\ pc = "ret"
    /\ bitcount >= 2
    /\ register[1] = 1
    /\ register[bitcount] = 0
    /\ latched[0] = 1

\* C2: every read_register() call performs exactly the operations: load
\* low, load high, then bitcount times (read data, clock high, clock
\* low); while the call runs, what it has done is a prefix of that list.
C2_PinSequence ==
    /\ Len(pinlog) <= Len(ReadOps(bitcount))
    /\ pinlog = SubSeq(ReadOps(bitcount), 1, Len(pinlog))
    /\ pc = "ret" => pinlog = ReadOps(bitcount)

C2_Witness ==
    /\ pc = "ret"
    /\ caller = "watch"
    /\ bitcount >= 2
    /\ Len(pinlog) = 2 + 3 * bitcount

\* C3: for every bitcount and every sequence of levels on the data line,
\* read_register() returns exactly bitcount values, each a bit.
C3_ReadLength ==
    pc = "ret" =>
        /\ Len(register) = bitcount
        /\ Range(register) \subseteq Bit

C3_Witness ==
    /\ pc = "ret"
    /\ bitcount = MaxBitCount
    /\ Len(register) = MaxBitCount
    /\ inputs # latched

CallsOf(up, down) ==
    [i \in 1 .. Len(up) |-> <<"up", up[i]>>]
    \o [i \in 1 .. Len(down) |-> <<"down", down[i]>>]

\* C6: within one cycle _callback calls handle_on_up once for each pin of
\* the up list, in the order of the list, then handle_on_down once for
\* each pin of the down list, in the order of the list; both lists are
\* ascending, and no handle_on_down call precedes a handle_on_up call.
C6_DispatchOrder ==
    LET calls == CallsOf(pins_changed_up, pins_changed_down) IN
    /\ pc = "cb_up" =>
           /\ Ascending(pins_changed_up) /\ Ascending(pins_changed_down)
           /\ events = SubSeq(calls, 1, k - 1)
           /\ k <= Len(pins_changed_up) + 1
    /\ pc = "cb_down" =>
           /\ events = SubSeq(calls, 1, Len(pins_changed_up) + k - 1)
           /\ k <= Len(pins_changed_down) + 1
           /\ k > Len(pins_changed_down) => events = calls

C6_Witness ==
    /\ pc = "cb_down"
    /\ k = Len(pins_changed_down) + 1
    /\ Len(pins_changed_up) >= 2
    /\ Len(pins_changed_down) >= 1
    /\ Len(events) = Len(pins_changed_up) + Len(pins_changed_down)
    /\ events[1][1] = "up"
    /\ events[Len(events)][1] = "down"

\* C7: in an iteration whose reading differs from last_reading the
\* handlers are called for exactly the transitions from last_reading to
\* the new reading, and then last_reading is the new reading; at every
\* iteration boundary last_reading is the most recent reading.
C7_ChangedIteration ==
    pc = "check" =>
        /\ last_reading = reading
        /\ reading = register
        /\ reading # iter_base => events = Transitions(reading, iter_base)

C7_Witness ==
    /\ pc = "check"
    /\ nreads = 3
    /\ reading # iter_base
    /\ last_reading = reading
    /\ Len(events) >= 2

\* C8: in an iteration whose reading equals last_reading no handler is
\* called and last_reading is left as it was.
C8_UnchangedIteration ==
    /\ caller = "watch" /\ pc = "ret" /\ register = last_reading =>
           events = <<>> /\ last_reading = iter_base
    /\ pc \in {"check", "done"} /\ reading = iter_base =>
           events = <<>> /\ last_reading = iter_base
    /\ pc \in {"cb_up", "cb_down", "raised"} => reading # iter_base

C8_Witness ==
    /\ pc = "check"
    /\ nreads = 3
    /\ reading = iter_base
    /\ events = <<>>
    /\ \E i \in Pins : reading[i + 1] = 1
    /\ inputs # latched

\* The bit vector v as a list.
AsList(v) == [i \in 1 .. bitcount |-> v[i - 1]]

\* C9: constructing a ReadHandler does exactly one read_register() and
\* keeps its result as last_reading before any handler is called; when
\* the inputs latched by the first iteration are those latched by the
\* constructor, that iteration calls no handler, high bits or not.
C9_Baseline ==
    /\ caller = "init" => events = <<>> /\ nreads <= 1
    /\ pc = "constructed" =>
           /\ nreads = 1
           /\ last_reading = AsList(latched)
    /\ (/\ caller = "watch"
        /\ nreads = 2
        /\ pc \notin {"load_lo", "load_hi"}
        /\ AsList(latched) = iter_base)
       => events = <<>> /\ pc \notin {"cb_up", "cb_down", "raised"}

C9_Witness ==
    /\ caller = "watch"
    /\ nreads = 2
    /\ pc = "check"
    /\ AsList(latched) = iter_base
    /\ \E i \in Pins : latched[i] = 1
    /\ events = <<>>

\* C10: setting loop_breaker moves the loop nowhere, and watch_inputs()
\* returns only from the flag test at the end of an iteration, when the
\* read of that iteration is complete and, if the reading changed, all
\* its handler calls and the update of last_reading are done.
C10_StopAtIterationEnd ==
    [][/\ (loop_breaker' /\ ~loop_breaker) => pc' = pc
       /\ (pc' = "done" /\ pc # "done") =>
              /\ pc = "check"
              /\ loop_breaker
              /\ pinlog = ReadOps(bitcount)
              /\ last_reading' = reading'
              /\ events' = Transitions(reading, iter_base)]_vars

C10_Witness ==
    /\ pc = "done"
    /\ stop_inflight
    /\ events # <<>>
    /\ last_reading = reading

\* C11: a handler that raises during dispatch leaves last_reading as it
\* was: within an iteration last_reading is the reading of the iteration
\* start until all handler calls of the diff have returned, so after a
\* failed dispatch it still holds the previous reading.
C11_FailedDispatchKeepsBaseline ==
    caller = "watch" =>
        /\ (pc = "raised" \/ exit_way = "exception") =>
               last_reading = iter_base /\ reading # last_reading
        /\ last_reading # iter_base =>
               /\ pc \in {"check", "done", "exited"}
               /\ last_reading = reading
               /\ events = Transitions(reading, iter_base)

C11_Witness ==
    /\ pc = "raised"
    /\ nreads = 3
    /\ events # <<>>
    /\ last_reading = iter_base
    /\ reading # last_reading

\* C12 as stated: a handler that fails during dispatch does not abort the
\* polling loop, watch_inputs() is never left by a handler's exception.
C12_HandlerFailureIsolated == pc # "raised"

\* C13: used in a with block, the object releases the GPIO lines exactly
\* once on every way out of the block (normal end, early exit, exception)
\* and not before.
C13_ReleasedOnceOnExit ==
    /\ pc = "exited" => cleanups = 1 /\ exit_way \in {"normal", "early", "exception"}
    /\ pc # "exited" => cleanups = 0 /\ exit_way = "none"

C13_Witness ==
    /\ pc = "exited"
    /\ exit_way = "exception"
    /\ cleanups = 1
    /\ events # <<>>

\* C15: two consecutive read_register() calls that latch the same inputs
\* (in particular when the inputs do not change) return identical lists:
\* the list returned in an iteration equals the one returned before it.
C15_RepeatedReadSame ==
    (/\ caller = "watch"
     /\ pc = "ret"
     /\ \A i \in Pins : latched[i] = iter_base[i + 1])
    => register = iter_base /\ register = last_reading

C15_Witness ==
    /\ caller = "watch"
    /\ pc = "ret"
    /\ nreads = 3
    /\ inputs = latched
    /\ register = iter_base
    /\ \E i \in Pins : register[i + 1] = 1
    /\ \E i \in Pins : register[i + 1] = 0

\* C16: the clock enable line is written exactly once, low, during
\* initialisation; no read writes it, and from construction to release
\* it is low.
C16_ClockEnableLow ==
    /\ pc # "new" => ce_writes = 1
    /\ pc = "new" => ce_writes = 0
    /\ pc \notin {"new", "exited"} => clock_enable = 0
    /\ \A j \in 1 .. Len(pinlog) : pinlog[j][2] # "enable"

C16_Witness ==
    /\ pc = "check"
    /\ nreads = 3
    /\ events # <<>>
    /\ ce_writes = 1
    /\ clock_enable = 0

\* C17: once loop_breaker is set it stays set, at most one more
\* read_register() is started, and the loop ends (given that GPIO calls
\* and handlers return); watch_inputs() called with the flag already set
\* does exactly one full iteration and returns.
C17_Bounded ==
    /\ reads_after_stop <= 1
    /\ pc = "done" /\ reads_after_stop = 1 =>
           /\ nreads = 2
           /\ ~stop_inflight
           /\ pinlog = ReadOps(bitcount)
           /\ events = Transitions(reading, iter_base)
           /\ last_reading = reading

C17_StopsAfterFlag ==
    /\ []C17_Bounded
    /\ [][loop_breaker /\ caller = "watch" => loop_breaker']_vars
    /\ (loop_breaker /\ caller = "watch") ~> (pc \in {"done", "raised", "exited"})

C17_Witness ==
    /\ pc = "done"
    /\ reads_after_stop = 1
    /\ nreads = 2
    /\ events # <<>>

\* C18: between construction and release the load line is low only
\* between the two writes of the latch pulse and the clock line is high
\* only between the two writes of a clock pulse; so whenever no read is
\* in flight the clock is low and the load line high.
C18_IdleLevels ==
    pc \notin {"new", "exited"} =>
        /\ load_reg_pin = 0 <=> pc = "load_hi"
        /\ clock_pin = 1 <=> pc = "clk_lo"

C18_Witness ==
    /\ pc = "check"
    /\ nreads = 3
    /\ clock_pin = 0
    /\ load_reg_pin = 1
    /\ inputs # latched

\* The clock pulses the current read has given the chain.
Shifts == IF pc = "clk_lo" THEN x + 1 ELSE x

\* C19: once the load line is high again the storage of the chain no
\* longer follows the inputs: whatever the inputs do while the bits are
\* shifted out, the bits still stored and the bits already read are those
\* of the inputs at latch time, and so is the list returned.
C19_Snapshot ==
    /\ pc \in {"sample", "clk_hi", "clk_lo"} =>
           /\ \A i \in Pins : i >= Shifts => shiftreg[i] = latched[i - Shifts]
           /\ Len(register) <= bitcount
           /\ \A j \in 1 .. Len(register) : register[j] = latched[bitcount - j]
    /\ pc = "ret" => register = AsList(latched)

C19_Witness ==
    /\ pc = "clk_hi"
    /\ x >= 1
    /\ inputs[bitcount - 1] # latched[bitcount - 1]
    /\ inputs[0] # latched[0]
    /\ register[1] = latched[bitcount - 1]

\* C14 as stated: the pin operations of two read_register() calls on one
\* object never interleave, at most one read is in flight at any time.
C14_OneReadInFlight == ~(InFlight(pc) /\ InFlight(pc2))

\* C14 amended: read_register() does nothing to keep other reads out; a
\* read during which no other read of the object is in flight does the
\* exact pin sequence and returns the latched inputs, and reads of one
\* thread follow one another; reads of two threads can interleave.
C14_SerialReads ==
    /\ (pc = "ret" /\ caller = "direct" /\ ~overlap1) =>
           /\ ~InFlight(pc2)
           /\ pinlog = ReadOps(bitcount)
           /\ register = AsList(latched)
    /\ (pc2 = "ret" /\ ~overlap2) =>
           /\ ~InFlight(pc)
           /\ pinlog = ReadOps(bitcount)
           /\ register2 = AsList(latched)
    /\ (InFlight(pc) /\ InFlight(pc2)) => overlap1 /\ overlap2

C14_Witness ==
    /\ pc2 = "ret"
    /\ ~overlap2
    /\ nreads = 2
    /\ bitcount >= 2
    /\ register2 = AsList(latched)
    /\ register2[1] # register2[bitcount]
    /\ register = register2

\* C20: over a run of watch_inputs() in which no handler fails, the calls
\* for each pin alternate between handle_on_up and handle_on_down, the
\* first call for a pin is handle_on_up exactly when its baseline bit was
\* low, and at every iteration boundary last_reading[i] is high exactly
\* when the last call for pin i was handle_on_up or, no call made yet,
\* when its baseline bit was high.
C20_EventsAlternate ==
    \A i \in Pins :
        LET h == history[i] IN
        /\ \A j \in 1 .. Len(h) - 1 : h[j] # h[j + 1]
        /\ Len(h) >= 1 => (h[1] = "up" <=> baseline[i + 1] = 0)
        /\ last_reading[i + 1] = 1
               <=> (IF Len(h) = 0 THEN baseline[i + 1] = 1
                                  ELSE h[Len(h)] = "up")

C20_Witness ==
    /\ bitcount >= 2
    /\ \E i \in Pins : history[i] = <<"down", "up">>
    /\ \E i \in Pins : history[i] = <<"up">> /\ last_reading[i + 1] = 1

====
